---- MODULE Spec2Model ----
(***************************************************************************)
(* A model of lib/Null.py of mindpack: the Signal class tree with its      *)
(* field schema and constructors, the Null substance (state, input queue,  *)
(* domain routing, mirroring set) and the cycle() design that the module   *)
(* documents next to the code.                                             *)
(***************************************************************************)
EXTENDS Integers, Sequences, FiniteSets, TLC

(***************************************************************************)
(* Bounds of the model.                                                    *)
(***************************************************************************)
\* number of user-declared Signal sub-kinds below Signal (U1 <- U2 <- ...)
MaxDepth == 2
\* number of entries a user-declared _fields dict may hold
MaxDecl == 2

(***************************************************************************)
(* Python values.  A value carries its type() so that the type comparisons *)
(* of set_fields can be computed.                                          *)
(***************************************************************************)
None == [type |-> "NoneType", val |-> "None"]

PyStr(s) == [type |-> "str", val |-> s]

PyInt(s) == [type |-> "int", val |-> s]

PyBool(b) == [type |-> "bool", val |-> IF b THEN "True" ELSE "False"]

\* issubclass(t, T) over the builtin types used here (bool derives from int)
issubclass(t, T) == t = T \/ (t = "bool" /\ T = "int")

(***************************************************************************)
(* Python dicts keep insertion order: a dict is a sequence of              *)
(* <<key, value>> pairs with distinct keys.                                *)
(***************************************************************************)
EmptyDict == << >>

DictKeys(d) == {d[i][1] : i \in 1..Len(d)}

DictGet(d, k) == d[CHOOSE i \in 1..Len(d) : d[i][1] = k][2]

\* d[k] = v : an existing key keeps its position, a new key is appended
DictSet(d, k, v) ==
    IF k \in DictKeys(d)
    THEN [i \in 1..Len(d) |-> IF d[i][1] = k THEN <<k, v>> ELSE d[i]]
    ELSE Append(d, <<k, v>>)

RECURSIVE DictUpdate(_, _)
\* d.update(e)
DictUpdate(d, e) ==
    IF e = << >> THEN d
    ELSE DictUpdate(DictSet(d, e[1][1], e[1][2]), Tail(e))

(***************************************************************************)
(* The class tree of signal kinds.  The kinds of Null.py are fixed; below  *)
(* Signal there is also a chain of user-declared kinds U1 <- U2 <- ...,    *)
(* each of which may or may not declare a _fields dict of its own.         *)
(***************************************************************************)
Kind(n) == [name |-> n, level |-> 0]

UserKind(i) == [name |-> "User", level |-> i]

Signal == Kind("Signal")

SigMirror == Kind("SigMirror")

GeneralControlSignal == Kind("GeneralControlSignal")

SigTerminate == Kind("SigTerminate")

SigTerminated == Kind("SigTerminated")

SigTerminateNow == Kind("SigTerminateNow")

BuiltinKinds ==
    {Signal, SigMirror, GeneralControlSignal, SigTerminate, SigTerminated, SigTerminateNow}

\* a schema entry: the tuple (type, default_value, human_readable_description)
Entry(t, d, s) == [type |-> t, default |-> d, descr |-> s]

\* Signal._fields
SignalFields ==
    << <<"src", Entry("str", None, "source/sender Null substance")>>,
       <<"dst", Entry("str", None, "destination/receiver Null substance")>> >>

\* the marker of a class body that assigns no _fields
NoDecl == << <<"__nodecl__", Entry("NoneType", None, "")>> >>

VARIABLES
    userFields,   \* userFields[i]: the _fields dict in the body of user kind i, or NoDecl
    call,         \* the call under test: [op, kind, kw]
    ret,          \* what the call returned, or NotCalled
    nulls,               \* the ids of the constructed Null substances
    domain,              \* self._domain
    is_mirroring,        \* self._state['is_mirroring']
    base_priority,       \* self._state['base_priority']
    additional_priority, \* self._state['additional_priority']
    termination,         \* self._state['termination']
    store,               \* the other keys of self._state, as written by set
    input_signals,       \* self._input_signals
    pc,                  \* where the substance's cycle() stands: idle, base, addt
    base_iter,           \* base_iter of cycle()
    addt_iter,           \* addt_iter of cycle()
    terminate_table,     \* the handler's terminate_table
    got_self,            \* the handler has seen a self-addressed SigTerminate
    in_flight,           \* the signals whose exec has been entered and has not returned
    next_uid,            \* the identity given to the next signal object
    calls,               \* number of calls made from outside so far
    dispatched,          \* history: the dispatches of the current cycle, in order
    follow_up,           \* the substances whose handler emits a follow-up to itself
    replies,             \* how a handler sends SigTerminated: "emit" or "push_signal"
    traced,              \* history: the substances whose cycles are compared with
                         \* the queue they started with
    started_with,        \* history: the queue at the start of the current cycle
    fed,                 \* history: a signal arrived during the current cycle
    received,            \* history: the signals the substance has dispatched so far
    last                 \* history: the last call made from outside

sigVars == <<userFields, call, ret>>

confVars ==
    <<nulls, domain, is_mirroring, base_priority, additional_priority, follow_up, replies,
      traced>>

cycleVars == <<pc, base_iter, addt_iter, dispatched, started_with, received>>

handlerVars == <<termination, terminate_table, got_self, in_flight>>

vars == <<sigVars, confVars, cycleVars, handlerVars, store, input_signals, next_uid,
          calls, fed, last>>

\* cls.__base__
Base(cls) ==
    IF cls.name = "User"
    THEN (IF cls.level = 1 THEN Signal ELSE UserKind(cls.level - 1))
    ELSE IF cls \in {SigTerminate, SigTerminated, SigTerminateNow}
    THEN GeneralControlSignal
    ELSE Signal

\* the class body of cls assigns _fields
Declares(cls) ==
    \/ cls = Signal
    \/ cls.name = "User" /\ userFields[cls.level] # NoDecl

RECURSIVE ClassFields(_)
\* the attribute lookup cls._fields: the nearest class on the way to Signal
\* whose body assigns _fields
ClassFields(cls) ==
    IF cls = Signal THEN SignalFields
    ELSE IF Declares(cls) THEN userFields[cls.level]
    ELSE ClassFields(Base(cls))

RECURSIVE inspect_fields_parent_last(_)
\* the merge in the order of class A.t(): own fields first, then the parent's
inspect_fields_parent_last(cls) ==
    LET d == DictUpdate(EmptyDict, ClassFields(cls))
    IN  IF cls # Signal THEN DictUpdate(d, inspect_fields_parent_last(Base(cls))) ELSE d

RECURSIVE inspect_fields(_)
\* Signal.inspect_fields
inspect_fields(cls) ==
    LET d == IF cls # Signal THEN DictUpdate(EmptyDict, inspect_fields(Base(cls)))
             ELSE EmptyDict
    IN  DictUpdate(d, ClassFields(cls))

(***************************************************************************)
(* Construction.  A constructed object is [kind, contained, attrs]; a call *)
(* returns [status, obj, printed] where status is "ok" when the caller     *)
(* gets the object and the name of the exception otherwise.                *)
(***************************************************************************)
NoObject == [kind |-> Kind("NoObject"), contained |-> EmptyDict, attrs |-> EmptyDict]

Returned(obj, printed) ==
    [status |-> "ok", obj |-> obj, printed |-> printed, value |-> EmptyDict]

\* a call that returns a plain value (a dict) and no signal object
ReturnedValue(v) == [status |-> "ok", obj |-> NoObject, printed |-> FALSE, value |-> v]

Raised(exc) == [status |-> exc, obj |-> NoObject, printed |-> FALSE, value |-> EmptyDict]

NotCalled ==
    [status |-> "not called", obj |-> NoObject, printed |-> FALSE, value |-> EmptyDict]

RECURSIVE set_fields_from(_, _, _, _)
\* the loop of Signal.set_fields from position i of the merged schema's keys:
\* <<return value, self.contained>>
set_fields_from(fields, kwargs, contained, i) ==
    IF i > Len(fields) THEN <<TRUE, contained>>
    ELSE LET field == fields[i][1]
             decl  == fields[i][2]
         IN  IF field \notin DictKeys(kwargs)
             THEN set_fields_from(fields, kwargs,
                                  DictSet(contained, field, decl.default), i + 1)
             ELSE IF \/ DictGet(kwargs, field).type # decl.type
                     \/ ~issubclass(DictGet(kwargs, field).type, decl.type)
             THEN <<FALSE, contained>>
             ELSE set_fields_from(fields, kwargs, contained, i + 1)

\* Signal.set_fields
set_fields(cls, kwargs, contained) ==
    set_fields_from(inspect_fields(cls), kwargs, contained, 1)

\* Signal.__init__(self, *positional, **kwargs) for an object of kind cls:
\* the signature takes keyword arguments only
Signal__init__(cls, npositional, kwargs) ==
    IF npositional > 0 THEN Raised("TypeError")
    ELSE LET r == set_fields(cls, kwargs, EmptyDict)
         IN  \* a failed set_fields raises FieldsMismatchError inside the try
             \* block whose except clause prints and goes on
             Returned([kind |-> cls, contained |-> r[2], attrs |-> EmptyDict], ~r[1])

\* the value bound to parameter p with default None
Arg(kwargs, p, default) == IF p \in DictKeys(kwargs) THEN DictGet(kwargs, p) ELSE default

\* SigMirror.__init__(self, src=None, dst=None, key=None, val=None)
SigMirror__init__(kwargs) ==
    IF ~(DictKeys(kwargs) \subseteq {"src", "dst", "key", "val"}) THEN Raised("TypeError")
    ELSE LET r == Signal__init__(SigMirror, 2, EmptyDict)   \* super().__init__(src, dst)
         IN  IF r.status # "ok" THEN r
             ELSE Returned([r.obj EXCEPT !.attrs =
                               << <<"key", Arg(kwargs, "key", None)>>,
                                  <<"value", Arg(kwargs, "val", None)>> >>], r.printed)

\* SigTerminate.__init__(self)
SigTerminate__init__(kwargs) ==
    IF kwargs # EmptyDict THEN Raised("TypeError")
    ELSE Signal__init__(SigTerminate, 0, EmptyDict)

\* SigTerminated.__init__(self, src=None, dst=None, countdown_request=0)
SigTerminated__init__(kwargs) ==
    IF ~(DictKeys(kwargs) \subseteq {"src", "dst", "countdown_request"})
    THEN Raised("TypeError")
    ELSE LET r == Signal__init__(SigTerminated, 0,
                                 << <<"src", Arg(kwargs, "src", None)>>,
                                    <<"dst", Arg(kwargs, "dst", None)>> >>)
         IN  Returned([r.obj EXCEPT !.attrs =
                          << <<"countdown_request",
                               Arg(kwargs, "countdown_request", PyInt("0"))>> >>], r.printed)

\* SigTerminateNow.__init__(self, src=None, dst=None)
SigTerminateNow__init__(kwargs) ==
    IF ~(DictKeys(kwargs) \subseteq {"src", "dst"}) THEN Raised("TypeError")
    ELSE Signal__init__(SigTerminateNow, 0,
                        << <<"src", Arg(kwargs, "src", None)>>,
                           <<"dst", Arg(kwargs, "dst", None)>> >>)

\* cls(**kwargs): the constructor that the class tree selects for cls
Construct(cls, kwargs) ==
    IF cls = SigMirror THEN SigMirror__init__(kwargs)
    ELSE IF cls = SigTerminate THEN SigTerminate__init__(kwargs)
    ELSE IF cls = SigTerminated THEN SigTerminated__init__(kwargs)
    ELSE IF cls = SigTerminateNow THEN SigTerminateNow__init__(kwargs)
    ELSE Signal__init__(cls, 0, kwargs)

\* signal.src / signal.dst (Signal.get_src, Signal.get_dst): self.contained[f]
get_field(obj, f) ==
    IF f \in DictKeys(obj.contained) THEN ReturnedValue(DictGet(obj.contained, f))
    ELSE Raised("KeyError")

(***************************************************************************)
(* Null substances.                                                        *)
(***************************************************************************)
\* number of push_signal calls made from outside on the substance that cycles
MaxCalls == 4
\* number of push_signal and emit calls made on the tree of substances
MaxRouteCalls == 3
\* number of set calls made on the tree of substances
MaxSetCalls == 2
\* number of termination signals pushed from outside during a handshake
MaxTriggers == 2
\* largest base_priority / additional_priority drawn
MaxPrio == 3
\* number of iterations a base phase with base_priority = -1 is followed for
MaxIter == 4

NullIds == <<"n1", "n2", "n3", "n4", "n5", "n6">>

\* self._domain = None
NoDomain == "None"

\* self._domain is an object that is not a Null (Null.__init__ keeps any value)
ForeignDomain == "not a Null"

\* the values of self._state['termination']; Null.__init__ sets False
Running == "running"

Requested == "requested"

Confirmed == "confirmed"

Terminated == "terminated"

\* the entries of terminate_table: not tracked, SigTerminate sent, SigTerminated seen
TableUntracked == 0

TableRequested == 1

TableConfirmed == 2

\* a key that self._state does not hold
Absent == [type |-> "absent", val |-> "absent"]

UserKeys == {"k", "j"}

UserValues == {PyInt("1"), PyInt("2")}

RECURSIVE Lineage(_)
\* cls and its ancestors up to Signal (the classes isinstance accepts)
Lineage(cls) == IF cls = Signal THEN {Signal} ELSE {cls} \cup Lineage(Base(cls))

isinstance(signal, cls) == cls \in Lineage(signal.kind)

\* a signal object in a queue: the constructed object and its identity
Object(r, u) ==
    [uid |-> u, kind |-> r.obj.kind, contained |-> r.obj.contained, attrs |-> r.obj.attrs]

\* the filler that cycle() executes when the queue is empty
NoSignal ==
    [uid |-> 0, kind |-> Kind("NoSignal"), contained |-> EmptyDict, attrs |-> EmptyDict]

\* Signal.set_src
set_src(signal, val) == [signal EXCEPT !.contained = DictSet(@, "src", val)]

\* Signal.set_dst
set_dst(signal, val) == [signal EXCEPT !.contained = DictSet(@, "dst", val)]

\* s = cls(); the object gets identity u
NewSignal(cls, u) == Object(Construct(cls, EmptyDict), u)

\* s = cls(); s.src = src; s.dst = dst
Addressed(cls, src, dst, u) == set_dst(set_src(NewSignal(cls, u), PyStr(src)), PyStr(dst))

\* push_signal with the preemptive kind appended like any other signal
push_signal_tail_only(queue, signal) == Append(queue, signal)

\* Null.push_signal on the list self._input_signals
push_signal(queue, signal) ==
    IF isinstance(signal, SigTerminateNow)
    THEN <<signal>> \o queue
    ELSE Append(queue, signal)

\* emit that hands the signal to the queue of the direct domain
emit_to_domain(queues, n, signal) ==
    IF domain[n] \in nulls
    THEN [queues EXCEPT ![domain[n]] = push_signal(@, signal)]
    ELSE [queues EXCEPT ![n] = push_signal(@, signal)]

RECURSIVE emit(_, _, _)
\* Null.emit of substance n, on the queues of all substances
emit(queues, n, signal) ==
    IF domain[n] \in nulls
    THEN emit(queues, domain[n], signal)
    ELSE [queues EXCEPT ![n] = push_signal(@, signal)]

(***************************************************************************)
(* The handler.  Null._exec is abstract; the reactions to the termination  *)
(* signals are the ones the class docstrings and the design ask for.  The  *)
(* handler works on the record st of what it may read and write:           *)
(* q (all queues), t (termination), tab (terminate_table),                 *)
(* gs (got_self), uid (next_uid).                                          *)
(***************************************************************************)
HandlerState(queues) ==
    [q |-> queues, t |-> termination, tab |-> terminate_table, gs |-> got_self,
     uid |-> next_uid]

\* the registry of the direct children of n
Children(n) == {c \in nulls : domain[c] = n}

RECURSIVE send_terminate(_, _, _)
\* send SigTerminate to the children NullIds[i], NullIds[i+1], ... of n and
\* track each as requested
send_terminate(n, i, st) ==
    IF i > Len(NullIds) THEN st
    ELSE IF NullIds[i] \in Children(n)
    THEN send_terminate(n, i + 1,
            [st EXCEPT !.q[NullIds[i]] =
                           push_signal(@, Addressed(SigTerminate, n, NullIds[i], st.uid)),
                       !.tab[n][NullIds[i]] = TableRequested,
                       !.uid = @ + 1])
    ELSE send_terminate(n, i + 1, st)

\* a substance that awaits no confirmation
NoneAwaited(n, st) == TRUE

\* all terminate_table[node_id] is 2
AllConfirmed(n, st) == \A c \in nulls : st.tab[n][c] # TableRequested

\* with every tracked child confirmed, n confirms to its own domain
confirm(n, st) ==
    IF st.t[n] = Requested /\ AllConfirmed(n, st)
    THEN IF domain[n] \in nulls
         THEN LET reply == Addressed(SigTerminated, n, domain[n], st.uid)
              IN  [st EXCEPT !.t[n] = Confirmed,
                             !.q = IF replies = "emit" THEN emit(st.q, n, reply)
                                   ELSE [st.q EXCEPT ![domain[n]] = push_signal(@, reply)],
                             !.uid = @ + 1]
         ELSE [st EXCEPT !.t[n] = Confirmed]
    ELSE st

\* finalize without looking at terminate_table
finalize_unchecked(n, st) ==
    IF st.t[n] # Running /\ st.gs[n] THEN [st EXCEPT !.t[n] = Terminated] ELSE st

\* if all terminate_table[node_id] is 2 and there is the self-addressed
\* SigTerminate: set termination
finalize(n, st) ==
    IF st.t[n] = Confirmed /\ AllConfirmed(n, st) /\ st.gs[n]
    THEN [st EXCEPT !.t[n] = Terminated]
    ELSE st

\* what n does once its table or its trigger has changed
settle(n, st) == finalize(n, confirm(n, st))

\* SigTerminate.src = SigTerminate.dst = the id of n
SelfAddressed(n, signal) ==
    /\ get_field(signal, "src") = ReturnedValue(PyStr(n))
    /\ get_field(signal, "dst") = ReturnedValue(PyStr(n))

\* a reaction to SigTerminate that starts the handshake over every time
on_terminate_again(n, signal, st) ==
    LET begun == send_terminate(n, 1, [st EXCEPT !.t[n] = Requested])
    IN  settle(n, [begun EXCEPT !.gs[n] = @ \/ SelfAddressed(n, signal)])

\* the expected reaction to SigTerminate
on_terminate(n, signal, st) ==
    LET begun == IF st.t[n] = Running
                 THEN send_terminate(n, 1, [st EXCEPT !.t[n] = Requested])
                 ELSE st
    IN  settle(n, [begun EXCEPT !.gs[n] = @ \/ SelfAddressed(n, signal)])

\* the expected reaction to SigTerminated: its src fills terminate_table
on_terminated(n, signal, st) ==
    LET src == get_field(signal, "src")
    IN  IF /\ src.status = "ok"
           /\ src.value.type = "str"
           /\ src.value.val \in nulls
           /\ st.tab[n][src.value.val] = TableRequested
        THEN settle(n, [st EXCEPT !.tab[n][src.value.val] = TableConfirmed])
        ELSE st

\* the reaction to SigTerminateNow: terminal at once
on_terminate_now(n, st) == [st EXCEPT !.t[n] = Terminated]

\* a signal that nobody has addressed: Signal() with src = None
Unaddressed(signal) ==
    signal.kind = Signal /\ get_field(signal, "src") = ReturnedValue(None)

\* the reaction of a handler that follows a signal up: signal emission
\* self['id'] -> self['id'] in place of a recurrent call
on_signal(n, signal, st) ==
    IF n \in follow_up /\ Unaddressed(signal)
    THEN [st EXCEPT !.q = emit(st.q, n, Addressed(Signal, n, n, st.uid)),
                    !.uid = @ + 1]
    ELSE st

\* Null._exec, as a kind-specific handler
handler(n, signal, st) ==
    IF isinstance(signal, SigTerminateNow) THEN on_terminate_now(n, st)
    ELSE IF isinstance(signal, SigTerminate) THEN on_terminate(n, signal, st)
    ELSE IF isinstance(signal, SigTerminated) THEN on_terminated(n, signal, st)
    ELSE on_signal(n, signal, st)

\* Null.exec
exec(n, signal, st) == handler(n, signal, st)

(***************************************************************************)
(* Construction of the substances: Null.__init__.                          *)
(***************************************************************************)
NoCall == [op |-> "none", kind |-> Signal, kw |-> EmptyDict]

NoLast ==
    [op |-> "none", who |-> "none", caller |-> "none", key |-> "none", value |-> None,
     outcome |-> "none", signal |-> NoSignal]

\* the substances ns, constructed with the given keyword arguments
Constructed(ns, dom, mirroring, base, addt) ==
    /\ nulls = ns
    /\ domain = dom
    /\ is_mirroring = mirroring
    /\ base_priority = base
    /\ additional_priority = addt
    /\ termination = [n \in ns |-> Running]
    /\ store = [n \in ns |-> [k \in UserKeys |-> Absent]]
    /\ input_signals = [n \in ns |-> << >>]
    /\ pc = [n \in ns |-> "idle"]
    /\ base_iter = [n \in ns |-> 0]
    /\ addt_iter = [n \in ns |-> 0]
    /\ terminate_table = [n \in ns |-> [c \in ns |-> TableUntracked]]
    /\ got_self = [n \in ns |-> FALSE]
    /\ in_flight = [n \in ns |-> << >>]
    /\ next_uid = 1
    /\ calls = 0
    /\ dispatched = [n \in ns |-> << >>]
    /\ started_with = [n \in ns |-> << >>]
    /\ fed = [n \in ns |-> FALSE]
    /\ received = [n \in ns |-> {}]
    /\ last = NoLast

\* no signal class is under test
NoSignalCall == userFields = << >> /\ call = NoCall /\ ret = NotCalled

(***************************************************************************)
(* Calls made from outside the cycle: push_signal, emit, set.              *)
(***************************************************************************)
Called(op, n, caller, key, value, outcome, signal) ==
    /\ calls' = calls + 1
    /\ last' = [op |-> op, who |-> n, caller |-> caller, key |-> key, value |-> value,
                outcome |-> outcome, signal |-> signal]

\* the substances whose running cycle sees its queue change from old to new
Fed(old, new) ==
    [m \in nulls |->
        fed[m] \/ (m \in traced /\ pc[m] \in {"base", "addt"} /\ new[m] # old[m])]

\* n.push_signal(cls())
PushSignal(n, cls) ==
    /\ LET signal == NewSignal(cls, next_uid)
           queues == [input_signals EXCEPT ![n] = push_signal(@, signal)]
       IN  /\ input_signals' = queues
           /\ fed' = Fed(input_signals, queues)
           /\ Called("push_signal", n, "none", "none", None, "returned", signal)
    /\ next_uid' = next_uid + 1
    /\ UNCHANGED <<sigVars, confVars, cycleVars, handlerVars, store>>

\* n.emit(cls())
Emit(n, cls) ==
    /\ LET signal == NewSignal(cls, next_uid)
           queues == emit(input_signals, n, signal)
       IN  /\ input_signals' = queues
           /\ fed' = Fed(input_signals, queues)
           /\ Called("emit", n, "none", "none", None, "returned", signal)
    /\ next_uid' = next_uid + 1
    /\ UNCHANGED <<sigVars, confVars, cycleVars, handlerVars, store>>

\* s = cls(); s.src = src; s.dst = dst; n.push_signal(s)
PushAddressed(n, cls, src, dst) ==
    /\ LET signal == Addressed(cls, src, dst, next_uid)
           queues == [input_signals EXCEPT ![n] = push_signal(@, signal)]
       IN  /\ input_signals' = queues
           /\ fed' = Fed(input_signals, queues)
           /\ Called("push_signal", n, "none", "none", None, "returned", signal)
    /\ next_uid' = next_uid + 1
    /\ UNCHANGED <<sigVars, confVars, cycleVars, handlerVars, store>>

\* s = cls(); s.src = src; s.dst = dst; n.emit(s)
EmitAddressed(n, cls, src, dst) ==
    /\ LET signal == Addressed(cls, src, dst, next_uid)
           queues == emit(input_signals, n, signal)
       IN  /\ input_signals' = queues
           /\ fed' = Fed(input_signals, queues)
           /\ Called("emit", n, "none", "none", None, "returned", signal)
    /\ next_uid' = next_uid + 1
    /\ UNCHANGED <<sigVars, confVars, cycleVars, handlerVars, store>>

\* the caller of set is module-level code: its frame has no local named self
NoSelf == "no self"

\* SigMirror(self['id'], self['id'], key, value)
MirrorOf(n, key, value) ==
    SigMirror__init__(<< <<"src", PyStr(n)>>, <<"dst", PyStr(n)>>,
                         <<"key", PyStr(key)>>, <<"val", value>> >>)

\* how n.set(key, value) ends when the frame that calls it has self = caller
SetOutcome(n, caller, key, value) ==
    IF ~is_mirroring[n] THEN "returned"
    ELSE IF caller = NoSelf THEN "KeyError"
    ELSE IF caller # n THEN "returned"
    ELSE IF domain[n] \notin nulls THEN "AttributeError"
    ELSE IF MirrorOf(n, key, value).status # "ok" THEN MirrorOf(n, key, value).status
    ELSE "emitted"

\* Null.set, called from a frame whose self is caller
Set(n, caller, key, value) ==
    /\ store' = [store EXCEPT ![n][key] = value]
    /\ LET outcome == SetOutcome(n, caller, key, value)
           signal == Object(MirrorOf(n, key, value), next_uid)
           queues == IF outcome = "emitted"
                     THEN emit(input_signals, domain[n], signal)
                     ELSE input_signals
       IN  /\ input_signals' = queues
           /\ fed' = Fed(input_signals, queues)
           /\ next_uid' = IF outcome = "emitted" THEN next_uid + 1 ELSE next_uid
           /\ Called("set", n, caller, key, value, outcome,
                     IF outcome = "emitted" THEN signal ELSE NoSignal)
    /\ UNCHANGED <<sigVars, confVars, cycleVars, handlerVars>>

\* the keys that self._state of n holds
Held(n) == {"id", "is_mirroring"} \cup {k \in UserKeys : store[n][k] # Absent}

\* self._state of n
state(n) ==
    [k \in Held(n) |->
        IF k = "id" THEN PyStr(n)
        ELSE IF k = "is_mirroring" THEN PyBool(is_mirroring[n])
        ELSE store[n][k]]

\* get that answers None for a key that is not held, as __getitem__ does
get_like_getitem(st, key, default_value) == IF key \in DOMAIN st THEN st[key] ELSE None

\* Null.get on the dict st
get(st, key, default_value) == IF key \in DOMAIN st THEN st[key] ELSE default_value

\* n.get(key, default_value)
Get(n, key, default_value) ==
    /\ ret' = ReturnedValue(get(state(n), key, default_value))
    /\ Called("get", n, "none", key, default_value, "returned", NoSignal)
    /\ UNCHANGED <<userFields, call, confVars, cycleVars, handlerVars, store, input_signals,
                   next_uid, fed>>

(***************************************************************************)
(* cycle(), "2. sync & no buffer".  One iteration of a phase is one step;  *)
(* the loop tests, which read only the loop counters, are taken with the   *)
(* step before them.                                                       *)
(***************************************************************************)
\* recv that leaves the signal it returns in the queue
recv_keep(queue) == <<Head(queue), queue>>

\* queue.recv() taking the newest signal
recv_last(queue) == <<queue[Len(queue)], SubSeq(queue, 1, Len(queue) - 1)>>

\* queue.recv(): <<the signal received, the queue left>>
recv(queue) == <<Head(queue), Tail(queue)>>

\* the base loop that stops one iteration early
base_loop_short(n, iter) == iter + 1 # base_priority[n] /\ iter # base_priority[n]

\* while base_iter != base
base_loop(n, iter) == iter # base_priority[n]

\* the additional loop that runs one more iteration than asked
addt_loop_long(n, iter) == iter # additional_priority[n] + 1

\* the additional loop written with <, which never runs for -1
addt_loop_below(n, iter) == iter < additional_priority[n]

\* while addt_iter != addt
addt_loop(n, iter) == iter # additional_priority[n]

\* pre_exec(signal) and pre_exec_no(): execute the signal
pre_exec(n, signal, st) == exec(n, signal, st)

\* pre_exec that lets the cycle go on whatever termination has become
goes_on_always(n, st) == TRUE

\* the value pre_exec returns: the cycle goes on unless termination is terminal
goes_on(n, st) == st.t[n] # Terminated

\* the handler's writes
Handled(st, queues) ==
    /\ input_signals' = st.q
    /\ termination' = st.t
    /\ terminate_table' = st.tab
    /\ got_self' = st.gs
    /\ in_flight' = in_flight
    /\ next_uid' = st.uid
    /\ fed' = Fed(queues, st.q)

Dispatch(n, phase, signal) ==
    /\ dispatched' =
          [dispatched EXCEPT ![n] = Append(@, [phase |-> phase, signal |-> signal])]
    /\ received' = [received EXCEPT ![n] = @ \cup ({signal} \ {NoSignal})]

\* where cycle() stands when the base loop is left: in the additional loop,
\* or at its return when that loop makes no iteration
AfterBase(n) == IF addt_loop(n, 0) THEN "addt" ELSE "returned"

\* where cycle() stands with base_iter = iter: in the base loop or after it
AtBase(n, iter) == IF base_loop(n, iter) THEN "base" ELSE AfterBase(n)

\* where cycle() stands with addt_iter = iter
AtAddt(n, iter) == IF addt_loop(n, iter) THEN "addt" ELSE "returned"

\* the owner keeps a substance until its termination is terminal
Alive(n) == termination[n] # Terminated

\* cycle() is entered
CycleStart(n) ==
    /\ pc[n] \in {"idle", "returned"}
    /\ Alive(n)
    /\ pc' = [pc EXCEPT ![n] = AtBase(n, 0)]
    /\ base_iter' = [base_iter EXCEPT ![n] = 0]
    /\ addt_iter' = [addt_iter EXCEPT ![n] = 0]
    /\ dispatched' = [dispatched EXCEPT ![n] = << >>]
    /\ started_with' = [started_with EXCEPT
                            ![n] = IF n \in traced THEN input_signals[n] ELSE @]
    /\ fed' = [fed EXCEPT ![n] = FALSE]
    /\ UNCHANGED <<sigVars, confVars, handlerVars, store, input_signals, received,
                   next_uid, calls, last>>

\* the body of the base loop, with the value queue.empty() has returned
BaseStep(n, empty) ==
    /\ LET signal == IF empty THEN NoSignal ELSE recv(input_signals[n])[1]
           queues == IF empty THEN input_signals
                     ELSE [input_signals EXCEPT ![n] = recv(@)[2]]
           st == pre_exec(n, signal, HandlerState(queues))
       IN  /\ Handled(st, queues)
           /\ Dispatch(n, "base", signal)
           /\ IF goes_on(n, st)
              THEN /\ base_iter' = [base_iter EXCEPT ![n] = @ + 1]
                   /\ pc' = [pc EXCEPT ![n] = AtBase(n, base_iter[n] + 1)]
              ELSE /\ base_iter' = base_iter
                   /\ pc' = [pc EXCEPT ![n] = "returned"]
    /\ UNCHANGED <<sigVars, confVars, store, addt_iter, started_with, calls, last>>

\* one iteration of the base phase
BaseIter(n) ==
    /\ pc[n] = "base"
    /\ base_priority[n] < 0 => base_iter[n] < MaxIter
    /\ BaseStep(n, input_signals[n] = << >>)

\* the body of the additional loop, with the value queue.empty() has returned
AddtStep(n, empty) ==
    /\ IF empty
       THEN /\ pc' = [pc EXCEPT ![n] = "returned"]
            /\ UNCHANGED <<handlerVars, input_signals, addt_iter, dispatched, received,
                           next_uid, fed>>
       ELSE LET signal == recv(input_signals[n])[1]
                queues == [input_signals EXCEPT ![n] = recv(@)[2]]
                st == pre_exec(n, signal, HandlerState(queues))
            IN  /\ Handled(st, queues)
                /\ Dispatch(n, "addt", signal)
                /\ IF goes_on(n, st)
                   THEN /\ addt_iter' = [addt_iter EXCEPT ![n] = @ + 1]
                        /\ pc' = [pc EXCEPT ![n] = AtAddt(n, addt_iter[n] + 1)]
                   ELSE /\ addt_iter' = addt_iter
                        /\ pc' = [pc EXCEPT ![n] = "returned"]
    /\ UNCHANGED <<sigVars, confVars, store, base_iter, started_with, calls, last>>

\* one iteration of the additional phase
AddtIter(n) ==
    /\ pc[n] = "addt"
    /\ AddtStep(n, input_signals[n] = << >>)

\* queue.empty() of an iteration, as a step of its own: other threads may
\* push before the cycle acts on the value
QueueEmpty(n) ==
    /\ pc[n] \in {"base", "addt"}
    /\ pc' = [pc EXCEPT ![n] =
                 IF pc[n] = "base"
                 THEN (IF input_signals[n] = << >> THEN "base_empty" ELSE "base_recv")
                 ELSE (IF input_signals[n] = << >> THEN "addt_empty" ELSE "addt_recv")]
    /\ UNCHANGED <<sigVars, confVars, handlerVars, store, input_signals, base_iter,
                   addt_iter, dispatched, started_with, received, next_uid, calls, fed,
                   last>>

\* the branch of a base iteration that queue.empty() has chosen
BaseBranch(n) ==
    /\ pc[n] \in {"base_empty", "base_recv"}
    /\ BaseStep(n, pc[n] = "base_empty")

\* the branch of an additional iteration that queue.empty() has chosen
AddtBranch(n) ==
    /\ pc[n] \in {"addt_empty", "addt_recv"}
    /\ AddtStep(n, pc[n] = "addt_empty")

(***************************************************************************)
(* The specification of one substance and its cycle.                       *)
(***************************************************************************)
Prios == -1..MaxPrio

Init ==
    /\ NoSignalCall
    /\ \E base \in Prios, addt \in Prios :
          Constructed({"n1"}, [n \in {"n1"} |-> NoDomain], [n \in {"n1"} |-> FALSE],
                      [n \in {"n1"} |-> base], [n \in {"n1"} |-> addt])
    /\ traced = nulls /\ follow_up = {} /\ replies = "emit"

Next ==
    \/ \E n \in nulls : CycleStart(n)
    \/ \E n \in nulls : BaseIter(n)
    \/ \E n \in nulls : AddtIter(n)
    \/ \E n \in nulls, cls \in {Signal, SigTerminateNow} :
          calls < MaxCalls /\ PushSignal(n, cls)

Spec == Init /\ [][Next]_vars

(***************************************************************************)
(* Claims about the queue and the cycle of one substance.                  *)
(***************************************************************************)
IsNow(signal) == isinstance(signal, SigTerminateNow)

\* the positions of the dispatches of a phase in the current cycle of n
PhaseOf(n, phase) == {i \in 1..Len(dispatched[n]) : dispatched[n][i].phase = phase}

\* the signals dispatched in the current cycle of n, in order
DispatchedSignals(n) == [i \in 1..Len(dispatched[n]) |-> dispatched[n][i].signal]

\* a dispatch of n happens in this step
Dispatches(n) == Len(dispatched'[n]) = Len(dispatched[n]) + 1

JustDispatched(n) == dispatched'[n][Len(dispatched'[n])]

\* the cycle of n has returned and left n not terminated
ReturnedRunning(n) == pc[n] = "returned" /\ termination[n] # Terminated

\* C1: in every queue the signals other than SigTerminateNow stand in the
\* order of their pushes, every SigTerminateNow stands ahead of them (the
\* latest pushed first), and the cycle takes the signals from the head: what it
\* has dispatched was pushed before whatever of the same sort is still queued.
C1_QueueOrder ==
    \A n \in nulls :
        LET q == input_signals[n]
            d == DispatchedSignals(n)
        IN  /\ \A i, j \in 1..Len(q) :
                  i < j => IF IsNow(q[j]) THEN IsNow(q[i]) /\ q[i].uid > q[j].uid
                           ELSE IsNow(q[i]) \/ q[i].uid < q[j].uid
            /\ \A i, j \in 1..Len(d) :
                  (i < j /\ d[i] # NoSignal /\ d[j] # NoSignal /\ ~IsNow(d[j]))
                      => d[i].uid < d[j].uid
            /\ \A i \in 1..Len(d), j \in 1..Len(q) :
                  (d[i] # NoSignal /\ ~IsNow(d[i]) /\ ~IsNow(q[j])) => d[i].uid < q[j].uid

\* S1, S2, S3 were pushed, then P: the cycle has drained S1 then S2, and P
\* stands ahead of S3
C1_Witness ==
    \E n \in nulls :
        /\ Len(dispatched[n]) = 2
        /\ dispatched[n][1].signal.uid = 1 /\ dispatched[n][2].signal.uid = 2
        /\ Len(input_signals[n]) = 2
        /\ IsNow(input_signals[n][1]) /\ input_signals[n][1].uid = 4
        /\ ~IsNow(input_signals[n][2]) /\ input_signals[n][2].uid = 3

\* the first b of: the signals of queue in order, then NoSignal for ever
RECURSIVE ExpectedBase(_, _)
ExpectedBase(queue, b) ==
    IF b = 0 THEN << >>
    ELSE IF queue = << >> THEN <<NoSignal>> \o ExpectedBase(queue, b - 1)
    ELSE <<Head(queue)>> \o ExpectedBase(Tail(queue), b - 1)

C3_Counts ==
    \A n \in nulls :
        base_priority[n] >= 0 =>
            /\ pc[n] = "base" =>
                  Cardinality(PhaseOf(n, "base")) = base_iter[n]
            /\ pc[n] = "base" => base_iter[n] < base_priority[n]
            /\ (pc[n] = "addt" \/ ReturnedRunning(n)) =>
                  /\ Cardinality(PhaseOf(n, "base")) = base_priority[n]
                  /\ PhaseOf(n, "base") = 1..base_priority[n]
                  /\ (n \in traced /\ ~fed[n]) =>
                        SubSeq(DispatchedSignals(n), 1, base_priority[n])
                            = ExpectedBase(started_with[n], base_priority[n])

C3_Iteration ==
    \A n \in nulls :
        (Dispatches(n) /\ pc[n] = "base") =>
            /\ JustDispatched(n).phase = "base"
            /\ JustDispatched(n).signal =
                  IF input_signals[n] = << >> THEN NoSignal ELSE Head(input_signals[n])

\* C3: with base_priority = b >= 0 and termination not becoming terminal the
\* base phase makes exactly b dispatches, and each of its iterations
\* dispatches the head of the queue, or NoSignal when the queue is empty.
C3_BasePhase == []C3_Counts /\ [][C3_Iteration]_vars

\* b = 3, additional_priority = 0, two signals queued: signal1, signal2, NoSignal
C3_Witness ==
    \E n \in nulls :
        /\ base_priority[n] = 3 /\ additional_priority[n] = 0
        /\ n \in traced /\ ReturnedRunning(n) /\ ~fed[n]
        /\ Len(started_with[n]) = 2
        /\ DispatchedSignals(n) = <<started_with[n][1], started_with[n][2], NoSignal>>
        /\ PhaseOf(n, "addt") = {}

C4_Counts ==
    \A n \in nulls :
        /\ \A i \in PhaseOf(n, "addt") : dispatched[n][i].signal # NoSignal
        /\ additional_priority[n] >= 0 =>
              Cardinality(PhaseOf(n, "addt")) <= additional_priority[n]

C4_Ending ==
    \A n \in nulls :
        /\ (pc[n] = "addt" /\ Dispatches(n)) =>
              /\ input_signals[n] # << >>
              /\ JustDispatched(n) = [phase |-> "addt", signal |-> Head(input_signals[n])]
        /\ (pc[n] = "addt" /\ input_signals[n] = << >> /\ pc'[n] # "addt") =>
              pc'[n] = "returned" /\ dispatched'[n] = dispatched[n]
        /\ (pc[n] = "addt" /\ pc'[n] = "returned") =>
              \/ input_signals[n] = << >>
              \/ termination'[n] = Terminated
              \/ /\ additional_priority[n] >= 0
                 /\ Dispatches(n)
                 /\ Cardinality(PhaseOf(n, "addt")) + 1 = additional_priority[n]
        /\ (pc[n] = "addt" /\ additional_priority[n] = -1 /\ pc'[n] = "returned") =>
              input_signals[n] = << >> \/ termination'[n] = Terminated

\* C4: the additional phase dispatches only signals taken from the queue,
\* never NoSignal, at most additional_priority of them when that is >= 0; it
\* ends when the queue is empty, and with additional_priority = -1 only then
\* or when termination has become terminal.
C4_AdditionalPhase == []C4_Counts /\ [][C4_Ending]_vars

\* a cycle with additional_priority = 2 has made two additional dispatches
\* and returned with a signal still queued
C4_Witness ==
    \E n \in nulls :
        /\ ReturnedRunning(n)
        /\ additional_priority[n] = 2
        /\ Cardinality(PhaseOf(n, "addt")) = 2
        /\ input_signals[n] # << >>

\* a cycle with base_priority = 1 and additional_priority = -1 that began
\* with 4 signals queued and got no further signal has returned
C5_Case(n) ==
    /\ n \in traced
    /\ pc[n] = "returned"
    /\ base_priority[n] = 1 /\ additional_priority[n] = -1
    /\ Len(started_with[n]) = 4
    /\ ~fed[n]

\* C5 as stated: 1 base dispatch plus 4 additional dispatches, 5 in total,
\* none of them NoSignal.
C5_AsClaimed ==
    \A n \in nulls :
        C5_Case(n) =>
            /\ Cardinality(PhaseOf(n, "base")) = 1
            /\ Cardinality(PhaseOf(n, "addt")) = 4
            /\ Len(dispatched[n]) = 5
            /\ \A i \in 1..Len(dispatched[n]) : dispatched[n][i].signal # NoSignal

\* C5 as amended: 1 base dispatch plus 3 additional dispatches, 4 in total,
\* the 4 queued signals in order and no NoSignal, when no dispatch makes
\* termination terminal; a dispatch that does ends the cycle there.
C5_Amended ==
    \A n \in nulls :
        C5_Case(n) =>
            /\ PhaseOf(n, "base") = {1}
            /\ \A i \in 1..Len(dispatched[n]) : dispatched[n][i].signal # NoSignal
            /\ DispatchedSignals(n) = SubSeq(started_with[n], 1, Len(dispatched[n]))
            /\ termination[n] # Terminated =>
                  /\ Cardinality(PhaseOf(n, "addt")) = 3
                  /\ Len(dispatched[n]) = 4
            /\ termination[n] = Terminated => IsNow(dispatched[n][Len(dispatched[n])].signal)

C5_Witness == \E n \in nulls : C5_Case(n) /\ termination[n] # Terminated

C15_Step ==
    \A n \in nulls :
        /\ termination[n] = Terminated =>
              /\ dispatched'[n] = dispatched[n] /\ received'[n] = received[n]
              /\ input_signals'[n] = input_signals[n] \/ Len(input_signals'[n]) > Len(input_signals[n])
              /\ pc'[n] = pc[n]
        /\ (termination[n] # Terminated /\ termination'[n] = Terminated) =>
              Dispatches(n) /\ pc'[n] = "returned"
        /\ (base_priority[n] = -1 /\ pc[n] = "base") =>
              /\ pc'[n] = "base" \/ termination'[n] = Terminated
              /\ (pc'[n] # pc[n] \/ base_iter'[n] # base_iter[n]) => Dispatches(n)
              /\ (Dispatches(n) /\ input_signals[n] = << >>) =>
                    JustDispatched(n) = [phase |-> "base", signal |-> NoSignal]

\* C15: a substance whose termination is terminal makes no further dispatch:
\* the dispatch that makes it terminal is the last of its cycle, which
\* returns before the next iteration and runs no later phase; with
\* base_priority = -1 the base phase dispatches on every iteration, NoSignal
\* on an empty queue, and is left only with termination terminal.
C15_StopsWhenTerminal == [][C15_Step]_vars

\* a base phase with base_priority = -1 has dispatched NoSignal three times
\* and then a SigTerminateNow, and has returned with a signal left that the
\* additional phase would have taken
C15_Witness ==
    \E n \in nulls :
        /\ base_priority[n] = -1 /\ additional_priority[n] = -1
        /\ termination[n] = Terminated /\ pc[n] = "returned"
        /\ Len(dispatched[n]) = 4
        /\ \A i \in 1..3 : dispatched[n][i] = [phase |-> "base", signal |-> NoSignal]
        /\ dispatched[n][4].phase = "base" /\ IsNow(dispatched[n][4].signal)
        /\ input_signals[n] # << >>

(***************************************************************************)
(* The specification of routing: three substances, constructed one after   *)
(* the other, each with no domain, with a domain that is no Null, or with  *)
(* a substance constructed before it as its domain.                        *)
(***************************************************************************)
TreeNulls == {"n1", "n2", "n3"}

Index(n) == CHOOSE i \in 1..Len(NullIds) : NullIds[i] = n

\* the domains the constructor can be given: it takes an existing object
Domains(ns) ==
    {dom \in [ns -> ns \cup {NoDomain, ForeignDomain}] :
        \A n \in ns : dom[n] \in ns => Index(dom[n]) < Index(n)}

DefaultBase(ns) == [n \in ns |-> 0]

DefaultAddt(ns) == [n \in ns |-> -1]

InitRoute ==
    /\ NoSignalCall
    /\ \E dom \in Domains(TreeNulls) :
          Constructed(TreeNulls, dom, [n \in TreeNulls |-> FALSE],
                      DefaultBase(TreeNulls), DefaultAddt(TreeNulls))
    /\ traced = {} /\ follow_up = {} /\ replies = "emit"

NextRoute ==
    \/ \E n \in nulls : calls < MaxRouteCalls /\ PushSignal(n, Signal)
    \/ \E n \in nulls, cls \in {Signal, SigTerminateNow} :
          calls < MaxRouteCalls /\ Emit(n, cls)

SpecRoute == InitRoute /\ [][NextRoute]_vars

\* n and the substances above it: its domain, the domain of its domain, ...
Upward(n) ==
    LET step(S) == S \cup {domain[m] : m \in {x \in S : domain[x] \in nulls}}
    IN  step(step(step({n})))

\* the substance of the chain of n that has no Null as its domain
RootOf(n) == CHOOSE r \in Upward(n) : domain[r] \notin nulls

\* C2: emit of any substance puts the signal once into the queue of the root
\* of its domain chain, at the head if it is a SigTerminateNow and at the tail
\* otherwise, and changes no other queue.
C2_EmitReachesRoot ==
    [][ (calls' = calls + 1 /\ last'.op = "emit") =>
            /\ Cardinality({r \in Upward(last'.who) : domain[r] \notin nulls}) = 1
            /\ input_signals' =
                  [input_signals EXCEPT ![RootOf(last'.who)] =
                      IF last'.signal.kind = SigTerminateNow
                      THEN <<last'.signal>> \o @
                      ELSE Append(@, last'.signal)] ]_vars

\* n3 below n2 below n1 has emitted a SigTerminateNow while n1, n2 and n3
\* held signals: it stands at the head of the queue of n1
C2_Witness ==
    /\ domain["n3"] = "n2" /\ domain["n2"] = "n1" /\ domain["n1"] = NoDomain
    /\ last.op = "emit" /\ last.who = "n3" /\ last.signal.kind = SigTerminateNow
    /\ Len(input_signals["n2"]) = 1 /\ input_signals["n3"] = << >>
    /\ Len(input_signals["n1"]) = 2 /\ input_signals["n1"][1] = last.signal

(***************************************************************************)
(* The specification of state writes: set on the tree of substances, from  *)
(* a method of the substance itself, from a method of another substance,   *)
(* or from module-level code.                                              *)
(***************************************************************************)
InitMirror ==
    /\ NoSignalCall
    /\ \E dom \in Domains(TreeNulls), mirroring \in [TreeNulls -> BOOLEAN] :
          Constructed(TreeNulls, dom, mirroring,
                      DefaultBase(TreeNulls), DefaultAddt(TreeNulls))
    /\ traced = {} /\ follow_up = {} /\ replies = "emit"

NextMirror ==
    \E n \in nulls, caller \in nulls \cup {NoSelf}, key \in {"k"}, value \in UserValues :
        calls < MaxSetCalls /\ Set(n, caller, key, value)

SpecMirror == InitMirror /\ [][NextMirror]_vars

\* the signals of queue that mirror the write of key, value by who
MirrorsIn(queue, who, key, value) ==
    {s \in {queue[i] : i \in 1..Len(queue)} :
        /\ s.kind = SigMirror
        /\ get_field(s, "src") = ReturnedValue(PyStr(who))
        /\ get_field(s, "dst") = ReturnedValue(PyStr(who))
        /\ DictGet(s.attrs, "key") = PyStr(key)
        /\ DictGet(s.attrs, "value") = value}

\* C8: a set stores the value; made by the substance's own code, with
\* is_mirroring true and a domain attached, it emits exactly one SigMirror
\* with src = dst = the substance's id, the key and the value to its domain;
\* made by any other caller, or with is_mirroring false, it emits none.
C8_Mirroring ==
    [][ (calls' = calls + 1 /\ last'.op = "set") =>
            LET n == last'.who
                own == is_mirroring[n] /\ domain[n] \in nulls /\ last'.caller = n
            IN  /\ store'[n][last'.key] = last'.value
                /\ own =>
                      /\ last'.outcome = "emitted"
                      /\ Len(input_signals'[RootOf(n)]) = Len(input_signals[RootOf(n)]) + 1
                      /\ last'.signal \in MirrorsIn(input_signals'[RootOf(n)], n, last'.key, last'.value)
                /\ ~own => input_signals' = input_signals ]_vars

(***************************************************************************)
(* The specification of the state of one substance: set and get, from      *)
(* the substance's own code or from module-level code.                     *)
(***************************************************************************)
\* number of set and get calls made on the substance
MaxStateCalls == 3

\* the keys asked for: held ones, and one that no substance holds
GetKeys == UserKeys \cup {"id", "is_mirroring", "nokey"}

GetDefaults == {None, PyInt("1")}

InitState ==
    /\ NoSignalCall
    /\ \E mirroring \in BOOLEAN :
          Constructed({"n1"}, [n \in {"n1"} |-> NoDomain], [n \in {"n1"} |-> mirroring],
                      DefaultBase({"n1"}), DefaultAddt({"n1"}))
    /\ traced = {} /\ follow_up = {} /\ replies = "emit"

NextState ==
    \/ \E n \in nulls, caller \in nulls \cup {NoSelf}, key \in UserKeys, value \in UserValues :
          calls < MaxStateCalls /\ Set(n, caller, key, value)
    \/ \E n \in nulls, key \in GetKeys, d \in GetDefaults :
          calls < MaxStateCalls /\ Get(n, key, d)

SpecState == InitState /\ [][NextState]_vars

C11_Step ==
    \A n \in nulls :
        /\ (calls' = calls + 1 /\ last'.op = "get" /\ last'.who = n) =>
              /\ ret'.status = "ok"
              /\ ret'.value = IF last'.key \in DOMAIN state(n) THEN state(n)[last'.key]
                              ELSE last'.value
              /\ state(n)' = state(n)
              /\ UNCHANGED <<confVars, cycleVars, handlerVars, store, input_signals>>
        /\ (calls' = calls + 1 /\ last'.op = "set" /\ last'.who = n /\ ~is_mirroring[n]) =>
              /\ \A d \in GetDefaults : get(state(n)', last'.key, d) = last'.value
              /\ DOMAIN state(n)' = DOMAIN state(n) \cup {last'.key}
              /\ \A k \in DOMAIN state(n) \ {last'.key} : state(n)'[k] = state(n)[k]
        /\ ( /\ last.op = "set" /\ last.who = n /\ ~is_mirroring[n]
             /\ calls' = calls + 1 /\ last'.op = "get" /\ last'.who = n
             /\ last'.key = last.key ) =>
              ret' = ReturnedValue(last.value)

\* C11: get returns the stored value of a held key and the caller's default
\* otherwise, never fails and changes nothing; after a set on a substance
\* that is not mirroring, get of the key returns the value set for every
\* default, and every other key holds what it held.
C11_GetSet == [][C11_Step]_vars

\* after set('k', 2) on a substance that is not mirroring and holds 'j',
\* get('k', 1) has returned 2
C11_Witness ==
    /\ last.op = "get" /\ last.who = "n1" /\ last.key = "k" /\ last.value = PyInt("1")
    /\ ~is_mirroring["n1"]
    /\ store["n1"]["j"] # Absent
    /\ ret = ReturnedValue(PyInt("2"))

(***************************************************************************)
(* The specification of the dispatch entry point: exec is called by the    *)
(* cycle, and by a handler on its own substance while its dispatch is in   *)
(* flight.  Here a dispatch takes several steps: it is entered, it may     *)
(* call exec again, it returns.                                            *)
(***************************************************************************)
\* number of exec calls made
MaxExecCalls == 3
\* number of dispatches of one substance followed in flight at once
MaxNest == 2

\* Null.exec entered with the dispatches of stack in flight: it calls _exec
enter(stack, signal) == Append(stack, signal)

\* the cycle of n, with no dispatch in flight, calls n.exec(cls())
ExecCall(n, cls) ==
    /\ in_flight[n] = << >>
    /\ LET signal == NewSignal(cls, next_uid)
       IN  /\ in_flight' = [in_flight EXCEPT ![n] = enter(@, signal)]
           /\ Called("exec", n, "cycle", "none", None, "entered", signal)
    /\ next_uid' = next_uid + 1
    /\ UNCHANGED <<sigVars, confVars, cycleVars, termination, terminate_table, got_self,
                   store, input_signals, fed>>

\* the handler of n, its dispatch in flight, calls self.exec(cls())
ExecNested(n, cls) ==
    /\ in_flight[n] # << >>
    /\ Len(in_flight[n]) < MaxNest
    /\ LET signal == NewSignal(cls, next_uid)
       IN  /\ in_flight' = [in_flight EXCEPT ![n] = enter(@, signal)]
           /\ Called("exec", n, n, "none", None, "entered", signal)
    /\ next_uid' = next_uid + 1
    /\ UNCHANGED <<sigVars, confVars, cycleVars, termination, terminate_table, got_self,
                   store, input_signals, fed>>

\* the innermost dispatch of n returns
ExecReturn(n) ==
    /\ in_flight[n] # << >>
    /\ in_flight' = [in_flight EXCEPT ![n] = SubSeq(@, 1, Len(@) - 1)]
    /\ UNCHANGED <<sigVars, confVars, cycleVars, termination, terminate_table, got_self,
                   store, input_signals, next_uid, calls, fed, last>>

InitExec ==
    /\ NoSignalCall
    /\ Constructed({"n1", "n2"}, [n \in {"n1", "n2"} |-> NoDomain],
                   [n \in {"n1", "n2"} |-> FALSE],
                   DefaultBase({"n1", "n2"}), DefaultAddt({"n1", "n2"}))
    /\ traced = {} /\ follow_up = {} /\ replies = "emit"

NextExec ==
    \/ \E n \in nulls, cls \in {Signal, SigTerminate} :
          calls < MaxExecCalls /\ ExecCall(n, cls)
    \/ \E n \in nulls, cls \in {Signal, SigTerminate} :
          calls < MaxExecCalls /\ ExecNested(n, cls)
    \/ \E n \in nulls : ExecReturn(n)

SpecExec == InitExec /\ [][NextExec]_vars

\* C12: exec called by a handler on its own substance while a dispatch of it
\* is in flight is rejected with an error and enters no handler, so no
\* substance has more than one dispatch in flight.
C12_ReentryRejected ==
    /\ (last.op = "exec" /\ last.caller = last.who) => last.outcome # "entered"
    /\ \A n \in nulls : Len(in_flight[n]) <= 1

(***************************************************************************)
(* The specification of follow-ups: two substances, the second with or     *)
(* without the first as its domain, each with its cycle and a handler that *)
(* follows every unaddressed Signal up with a Signal emitted from itself   *)
(* to itself.                                                              *)
(***************************************************************************)
\* number of signals pushed from outside
MaxFollowCalls == 2

FollowNulls == {"n1", "n2"}

InitFollow ==
    /\ NoSignalCall
    /\ \E dom \in Domains(FollowNulls) :
          Constructed(FollowNulls, dom, [n \in FollowNulls |-> FALSE],
                      DefaultBase(FollowNulls), DefaultAddt(FollowNulls))
    /\ traced = {} /\ follow_up = nulls /\ replies = "emit"

NextFollow ==
    \/ \E n \in nulls : CycleStart(n)
    \/ \E n \in nulls : AddtIter(n)
    \/ \E n \in nulls : calls < MaxFollowCalls /\ PushSignal(n, Signal)

SpecFollow == InitFollow /\ [][NextFollow]_vars

\* the signals among ss that n has addressed to itself
FollowUpsOf(n, ss) == {x \in ss : x.kind = Signal /\ SelfAddressed(n, x)}

\* C13: a signal that a substance has emitted to itself is not dispatched
\* by the dispatch that emits it; it waits in the queue of that substance
\* and is dispatched by the cycle of that substance, with or without a
\* domain: no other substance holds it or dispatches it.
C13_SelfFollowUp ==
    \A n \in nulls :
        /\ \A m \in nulls \ {n} :
              /\ FollowUpsOf(n, {input_signals[m][i] : i \in 1..Len(input_signals[m])}) = {}
              /\ FollowUpsOf(n, received[m]) = {}
        /\ \A i \in 1..Len(dispatched[n]) :
              Unaddressed(dispatched[n][i].signal) =>
                  \A j \in 1..i : ~SelfAddressed(n, dispatched[n][j].signal)
                                   \/ dispatched[n][j].signal.uid < dispatched[n][i].signal.uid

(***************************************************************************)
(* The specification of termination: the root n1 with the children n2 and  *)
(* n3, each with its own cycle.  From outside a substance is sent          *)
(* SigTerminate (plain, or addressed by itself to itself) or               *)
(* SigTerminateNow.                                                        *)
(***************************************************************************)
\* the substances that are sent termination signals from outside
Initiators == {"n1"}

InitTerm ==
    /\ NoSignalCall
    /\ Constructed(TreeNulls,
                   [n \in TreeNulls |-> IF n = "n1" THEN NoDomain ELSE "n1"],
                   [n \in TreeNulls |-> FALSE],
                   [n \in TreeNulls |-> IF n = "n1" THEN 1 ELSE 0],
                   [n \in TreeNulls |-> IF n = "n2" THEN 1 ELSE -1])
    /\ traced = {} /\ follow_up = {} /\ replies = "emit"

NextTerm ==
    \/ \E n \in nulls : CycleStart(n)
    \/ \E n \in nulls : BaseIter(n)
    \/ \E n \in nulls : AddtIter(n)
    \/ \E n \in Initiators : calls < MaxTriggers /\ PushSignal(n, SigTerminate)
    \/ \E n \in Initiators : calls < MaxTriggers /\ PushAddressed(n, SigTerminate, n, n)
    \/ \E n \in Initiators : calls < MaxTriggers /\ PushSignal(n, SigTerminateNow)

SpecTerm == InitTerm /\ [][NextTerm]_vars

\* the last dispatch of n was a SigTerminateNow
EndedByNow(n) ==
    dispatched[n] # << >> /\ IsNow(dispatched[n][Len(dispatched[n])].signal)

\* C6: a substance that the handshake (not SigTerminateNow) has terminated
\* has every child of its tracking map confirmed, has dispatched a
\* SigTerminated of every child, and has dispatched a SigTerminate with
\* src = dst = its own id; so a root of which a child has not confirmed is
\* not terminated.
C6_HandshakeFinalizes ==
    \A n \in nulls :
        (termination[n] = Terminated /\ ~EndedByNow(n)) =>
            /\ \A c \in nulls : terminate_table[n][c] # TableRequested
            /\ \A c \in Children(n) :
                  /\ terminate_table[n][c] = TableConfirmed
                  /\ termination[c] \in {Confirmed, Terminated}
                  /\ \E s \in received[n] :
                        /\ s.kind = SigTerminated
                        /\ get_field(s, "src") = ReturnedValue(PyStr(c))
            /\ \E s \in received[n] :
                  /\ s.kind = SigTerminate
                  /\ get_field(s, "src") = ReturnedValue(PyStr(n))
                  /\ get_field(s, "dst") = ReturnedValue(PyStr(n))

\* the root has been terminated by the handshake with its two children
C6_Witness ==
    /\ termination["n1"] = Terminated /\ ~EndedByNow("n1")
    /\ Children("n1") = {"n2", "n3"}
    /\ \A c \in Children("n1") : terminate_table["n1"][c] = TableConfirmed

C7_Step ==
    \A n \in nulls :
        /\ (Dispatches(n) /\ \E j \in 1..Len(input_signals[n]) : IsNow(input_signals[n][j])) =>
              /\ IsNow(JustDispatched(n).signal)
              /\ \A j \in 1..Len(input_signals[n]) :
                    IsNow(input_signals[n][j]) =>
                        input_signals[n][j].uid <= JustDispatched(n).signal.uid
        /\ (Dispatches(n) /\ IsNow(JustDispatched(n).signal)) =>
              termination'[n] = Terminated /\ pc'[n] = "returned"
        /\ termination[n] = Terminated =>
              /\ termination'[n] = Terminated
              /\ dispatched'[n] = dispatched[n]
              /\ pc'[n] = "returned"

Rank(t) ==
    CASE t = Running -> 0
      [] t = Requested -> 1
      [] t = Confirmed -> 2
      [] t = Terminated -> 3

C16_Step ==
    \A n \in nulls :
        /\ termination'[n] \in {Running, Requested, Confirmed, Terminated}
        /\ Rank(termination'[n]) >= Rank(termination[n])
        /\ termination[n] = Terminated => termination'[n] = Terminated

FieldNames == {"src", "dst", "key"}

\* what a user kind may declare for a field name: a changed type, a changed
\* default, a new field
UserEntry(f) ==
    IF f = "src" THEN Entry("int", PyInt("0"), "redeclared as int")
    ELSE IF f = "dst" THEN Entry("str", PyStr("nowhere"), "redeclared with a default")
    ELSE Entry("int", None, "a key")

RECURSIVE DictsOver(_, _)
\* the dicts of at most n entries that declare distinct names of fs
DictsOver(fs, n) ==
    IF n = 0 \/ fs = {} THEN {EmptyDict}
    ELSE {EmptyDict} \cup
         UNION {{<< <<f, UserEntry(f)>> >> \o d : d \in DictsOver(fs \ {f}, n - 1)} : f \in fs}

UserDecls == DictsOver(FieldNames, MaxDecl) \cup {NoDecl}

UserChains == UNION {[1..d -> UserDecls] : d \in 0..MaxDepth}

\* the values a caller supplies for a keyword
KwValues(f) ==
    IF f = "src" THEN {PyStr("a"), PyInt("7")}
    ELSE IF f = "dst" THEN {PyStr("b"), None}
    ELSE {PyInt("1")}

RECURSIVE KwDicts(_)
\* the keyword dicts over the names of fs, the names in one fixed order
KwDicts(fs) ==
    IF fs = << >> THEN {EmptyDict}
    ELSE LET rest == KwDicts(Tail(fs))
         IN  rest \cup {<< <<Head(fs), v>> >> \o d : v \in KwValues(Head(fs)), d \in rest}

KwMenu == KwDicts(<<"src", "dst", "key">>)

KindsOf(chain) == BuiltinKinds \cup {UserKind(i) : i \in 1..Len(chain)}

\* class Null and class Node(Null)
NullKind == Kind("Null")

Node == Kind("Node")

SubstanceKinds == {NullKind, Node}

UserNames == <<"User1", "User2", "User3", "User4">>

\* cl.__name__
ClassName(cl) == IF cl.name = "User" THEN UserNames[cl.level] ELSE cl.name

\* cl.__subclasses__(): the direct subclasses, in the order of their definition
subclasses(cl) ==
    IF cl = Signal
    THEN <<SigMirror, GeneralControlSignal>>
            \o (IF Len(userFields) >= 1 THEN <<UserKind(1)>> ELSE << >>)
    ELSE IF cl = GeneralControlSignal THEN <<SigTerminate, SigTerminated, SigTerminateNow>>
    ELSE IF cl.name = "User" /\ cl.level < Len(userFields) THEN <<UserKind(cl.level + 1)>>
    ELSE IF cl = NullKind THEN <<Node>>
    ELSE << >>

RECURSIVE all_below(_), updated_with(_, _, _)
\* Signal.__all_signals(cl) and Null.__all_nulls(cl), which have the same
\* body: the dict of cl and of everything below it, by class name
all_below(cl) == updated_with(<< <<ClassName(cl), cl>> >>, subclasses(cl), 1)

\* for ch in children: ret.update(...), from the child at position i
updated_with(d, children, i) ==
    IF i > Len(children) THEN d
    ELSE updated_with(DictUpdate(d, all_below(children[i])), children, i + 1)

\* Signal.all_signals()
all_signals == all_below(Signal)

\* Null.list_all_nulls()
list_all_nulls == all_below(Signal)

RegistryCall(op) == [op |-> op, kind |-> Signal, kw |-> EmptyDict]

InitSignal ==
    /\ userFields \in UserChains
    /\ call \in {[op |-> "inspect_fields", kind |-> k, kw |-> EmptyDict] :
                    k \in KindsOf(userFields)}
            \cup {RegistryCall("all_signals"), RegistryCall("list_all_nulls")}
            \cup {[op |-> "construct", kind |-> k, kw |-> kw] :
                    k \in KindsOf(userFields), kw \in KwMenu}
    /\ ret = NotCalled
    /\ Constructed({}, << >>, << >>, << >>, << >>)
    /\ traced = {} /\ follow_up = {} /\ replies = "emit"

\* cls.inspect_fields()
CallInspect ==
    /\ call.op = "inspect_fields"
    /\ ret = NotCalled
    /\ ret' = ReturnedValue(inspect_fields(call.kind))
    /\ UNCHANGED <<userFields, call, confVars, cycleVars, handlerVars, store, input_signals,
                   next_uid, calls, fed, last>>

\* cls(**kw)
CallConstruct ==
    /\ call.op = "construct"
    /\ ret = NotCalled
    /\ ret' = Construct(call.kind, call.kw)
    /\ UNCHANGED <<userFields, call, confVars, cycleVars, handlerVars, store, input_signals,
                   next_uid, calls, fed, last>>

\* Signal.all_signals()
CallAllSignals ==
    /\ call.op = "all_signals"
    /\ ret = NotCalled
    /\ ret' = ReturnedValue(all_signals)
    /\ UNCHANGED <<userFields, call, confVars, cycleVars, handlerVars, store, input_signals,
                   next_uid, calls, fed, last>>

\* Null.list_all_nulls()
CallListAllNulls ==
    /\ call.op = "list_all_nulls"
    /\ ret = NotCalled
    /\ ret' = ReturnedValue(list_all_nulls)
    /\ UNCHANGED <<userFields, call, confVars, cycleVars, handlerVars, store, input_signals,
                   next_uid, calls, fed, last>>

NextSignal == CallInspect \/ CallConstruct \/ CallAllSignals \/ CallListAllNulls

SpecSignal == InitSignal /\ [][NextSignal]_vars

(***************************************************************************)
(* Claims about the signal schema.                                         *)
(***************************************************************************)
\* the dict that the class body of cls itself assigns to _fields (none: empty)
Body(cls) ==
    IF cls = Signal THEN SignalFields
    ELSE IF Declares(cls) THEN userFields[cls.level]
    ELSE EmptyDict

\* the class of the lineage of cls nearest to cls whose body declares f
MostSpecific(cls, f) ==
    CHOOSE c \in Lineage(cls) :
        /\ f \in DictKeys(Body(c))
        /\ \A e \in Lineage(cls) : f \in DictKeys(Body(e)) => Lineage(e) \subseteq Lineage(c)

\* C10: the merged schema of a kind holds exactly the field names declared by
\* the kind and its ancestors, each with the entry of the most specific kind
\* that declares it.
C10_MergedSchema ==
    (call.op = "inspect_fields" /\ ret # NotCalled) =>
        /\ ret.status = "ok"
        /\ DictKeys(ret.value) = UNION {DictKeys(Body(c)) : c \in Lineage(call.kind)}
        /\ Len(ret.value) = Cardinality(DictKeys(ret.value))
        /\ \A f \in DictKeys(ret.value) :
              DictGet(ret.value, f) = DictGet(Body(MostSpecific(call.kind, f)), f)

\* a kind two levels below Signal whose own body redeclares a field that its
\* parent and Signal declare too, with different entries, has been inspected
C10_Witness ==
    /\ call.op = "inspect_fields" /\ ret # NotCalled
    /\ call.kind = UserKind(2)
    /\ "dst" \in DictKeys(Body(UserKind(2))) /\ "src" \in DictKeys(Body(UserKind(1)))
    /\ "key" \in DictKeys(Body(UserKind(1))) \cup DictKeys(Body(UserKind(2)))
    /\ DictGet(ret.value, "dst") # DictGet(SignalFields, "dst")
    /\ DictGet(ret.value, "src") # DictGet(SignalFields, "src")

\* a supplied value of a type other than the declared one
WrongTyped(cls, kw) ==
    \E f \in DictKeys(kw) \cap DictKeys(inspect_fields(cls)) :
        DictGet(kw, f).type # DictGet(inspect_fields(cls), f).type

\* a field whose declared default is None (no default) is not supplied
MissingRequired(cls, kw) ==
    \E f \in DictKeys(inspect_fields(cls)) \ DictKeys(kw) :
        DictGet(inspect_fields(cls), f).default = None

\* C9: construction fails when a required field is omitted or a supplied field
\* is wrongly typed, and succeeds for a built-in kind given exactly its merged
\* fields, correctly typed.
C9_ConstructionValidates ==
    (call.op = "construct" /\ ret # NotCalled) =>
        /\ (WrongTyped(call.kind, call.kw) \/ MissingRequired(call.kind, call.kw))
              => ret.status # "ok"
        /\ ( /\ call.kind \in {SigMirror, SigTerminate, SigTerminated, SigTerminateNow}
             /\ DictKeys(call.kw) = DictKeys(inspect_fields(call.kind))
             /\ ~WrongTyped(call.kind, call.kw) )
              => ret.status = "ok"

\* the kinds that a returned registry dict enumerates
Enumerated(d) == {d[i][2] : i \in 1..Len(d)}

\* every kind is enumerated under its own name, and under no other
ByName(d) ==
    /\ Len(d) = Cardinality(DictKeys(d))
    /\ \A i \in 1..Len(d) : d[i][1] = ClassName(d[i][2])

\* C20: Signal.all_signals returns, by name, exactly Signal and all its
\* direct and indirect sub-kinds; Null.list_all_nulls returns, by name,
\* exactly Null and its sub-kinds (Node) and no signal kind.
C20_RegistryLookups ==
    /\ (call.op = "all_signals" /\ ret # NotCalled) =>
          /\ ret.status = "ok" /\ ByName(ret.value)
          /\ Enumerated(ret.value) = KindsOf(userFields)
    /\ (call.op = "list_all_nulls" /\ ret # NotCalled) =>
          /\ ret.status = "ok" /\ ByName(ret.value)
          /\ Enumerated(ret.value) = SubstanceKinds
          /\ Enumerated(ret.value) \cap KindsOf(userFields) = {}

\* C19: a signal constructed without a reported mismatch reads back, for
\* every merged-schema field, the correctly typed value supplied for it, and
\* the declared default where none was supplied.
C19_ReadsBack ==
    (call.op = "construct" /\ ret.status = "ok" /\ ~ret.printed
        /\ ~WrongTyped(call.kind, call.kw)) =>
        \A f \in DictKeys(inspect_fields(call.kind)) :
            get_field(ret.obj, f) =
                IF f \in DictKeys(call.kw)
                THEN ReturnedValue(DictGet(call.kw, f))
                ELSE ReturnedValue(DictGet(inspect_fields(call.kind), f).default)

(***************************************************************************)
(* The specification of the handshake down a chain: n3 below n2 below the  *)
(* root n1, each with its cycle.  SigTerminated is sent with emit or with  *)
(* push_signal on the domain; the root is sent SigTerminate from outside,  *)
(* plain or addressed by itself to itself.                                 *)
(***************************************************************************)
ChainDomain == [n \in TreeNulls |-> IF n = "n1" THEN NoDomain ELSE NullIds[Index(n) - 1]]

InitChain ==
    /\ NoSignalCall
    /\ Constructed(TreeNulls, ChainDomain, [n \in TreeNulls |-> FALSE],
                   DefaultBase(TreeNulls), DefaultAddt(TreeNulls))
    /\ traced = {} /\ follow_up = {}
    /\ replies \in {"emit", "push_signal"}

NextChain ==
    \/ \E n \in nulls : CycleStart(n)
    \/ \E n \in nulls : AddtIter(n)
    \/ \E n \in Initiators : calls < MaxTriggers /\ PushSignal(n, SigTerminate)
    \/ \E n \in Initiators : calls < MaxTriggers /\ PushAddressed(n, SigTerminate, n, n)

SpecChain == InitChain /\ [][NextChain]_vars

\* the substances below n
Descendants(n) == {d \in nulls \ {n} : n \in Upward(d)}

\* every signal that is queued somewhere or has been dispatched by somebody
Sent ==
    UNION {{input_signals[m][i] : i \in 1..Len(input_signals[m])} \cup received[m] :
             m \in nulls}

\* n has sent its SigTerminated
HasReplied(n) ==
    \E x \in Sent : x.kind = SigTerminated /\ get_field(x, "src") = ReturnedValue(PyStr(n))

\* C14: a substance that has sent its SigTerminated, or stands confirmed
\* below a parent, has sent SigTerminate to each of its children and has
\* dispatched the SigTerminated of each; all its descendants have confirmed.
C14_ConfirmsAfterChildren ==
    \A n \in nulls :
        (HasReplied(n) \/ (domain[n] \in nulls /\ termination[n] \in {Confirmed, Terminated})) =>
            /\ \A c \in Children(n) :
                  /\ terminate_table[n][c] = TableConfirmed
                  /\ \E x \in received[c] : x.kind = SigTerminate
                  /\ \E x \in received[n] :
                        x.kind = SigTerminated /\ get_field(x, "src") = ReturnedValue(PyStr(c))
            /\ \A d \in Descendants(n) :
                  termination[d] \in {Confirmed, Terminated} /\ HasReplied(d)

\* n2, with the child n3, has confirmed to n1 after n3 confirmed to it
C14_Witness ==
    /\ Children("n2") = {"n3"} /\ domain["n2"] = "n1"
    /\ termination["n2"] = Confirmed /\ termination["n3"] = Confirmed
    /\ \E x \in received["n1"] :
          x.kind = SigTerminated /\ get_field(x, "src") = ReturnedValue(PyStr("n2"))

(***************************************************************************)
(* The specification of concurrent producers: the children n2 and n3 of    *)
(* the root n1 emit addressed signals, or push them to n1 directly, while  *)
(* the cycle of n1 is the only consumer; queue.empty() and the branch it   *)
(* chooses are separate steps.                                             *)
(***************************************************************************)
MaxPushes == 3

Consumer == "n1"

Producers == TreeNulls \ {Consumer}

InitConc ==
    /\ NoSignalCall
    /\ Constructed(TreeNulls,
                   [n \in TreeNulls |-> IF n = Consumer THEN NoDomain ELSE Consumer],
                   [n \in TreeNulls |-> FALSE],
                   [n \in TreeNulls |-> 1],
                   [n \in TreeNulls |-> 1])
    /\ traced = {} /\ follow_up = {} /\ replies = "emit"

NextConc ==
    \/ CycleStart(Consumer)
    \/ QueueEmpty(Consumer)
    \/ BaseBranch(Consumer)
    \/ AddtBranch(Consumer)
    \/ \E p \in Producers, cls \in {Signal, SigTerminateNow} :
          calls < MaxPushes /\ EmitAddressed(p, cls, p, Consumer)
    \/ \E p \in Producers, cls \in {Signal, SigTerminateNow} :
          calls < MaxPushes /\ PushAddressed(Consumer, cls, p, Consumer)

SpecConc == InitConc /\ [][NextConc]_vars

\* the number of places the signal with identity u has in the queue of n
\* and among the signals n has dispatched
Copies(n, u) ==
    Cardinality({j \in 1..Len(input_signals[n]) : input_signals[n][j].uid = u})
        + Cardinality({x \in received[n] : x.uid = u})

C17_Kept ==
    /\ \A u \in 1..(next_uid - 1) : Copies(Consumer, u) = 1
    /\ \A p \in Producers : input_signals[p] = << >> /\ received[p] = {}

C17_Dispatch ==
    (Dispatches(Consumer) /\ JustDispatched(Consumer).signal # NoSignal) =>
        LET x == JustDispatched(Consumer).signal
            queue == input_signals[Consumer]
        IN  /\ x \notin received[Consumer]
            /\ \E j \in 1..Len(queue) : queue[j] = x
            /\ ~IsNow(x) =>
                  \A j \in 1..Len(queue) :
                      (~IsNow(queue[j]) /\ get_field(queue[j], "src") = get_field(x, "src"))
                          => queue[j].uid >= x.uid

\* C17: with the children pushing and emitting to the root while the
\* root's cycle is the only consumer, running or between two cycles, every
\* pushed signal is in the queue or has been dispatched, never both and
\* never twice, and a dispatched signal other than SigTerminateNow is the
\* earliest pushed of its producer's signals that the queue still holds.
C17_NoLossNoDuplicate == []C17_Kept /\ [][C17_Dispatch]_vars

\* the consumer has dispatched signals of both producers, has then found
\* its queue empty, and a producer has pushed before the consumer acts on it
C17_Witness ==
    /\ pc[Consumer] = "base_empty" /\ input_signals[Consumer] # << >>
    /\ \A p \in Producers :
          \E x \in received[Consumer] : get_field(x, "src") = ReturnedValue(PyStr(p))

(***************************************************************************)
(* The specification of fair cycles: the chain n1 <- n2 <- n3 whose        *)
(* handlers reply with emit, every substance's cycle being started and     *)
(* stepped again and again.                                                *)
(***************************************************************************)
InitFair ==
    /\ NoSignalCall
    /\ Constructed(TreeNulls, ChainDomain, [n \in TreeNulls |-> FALSE],
                   DefaultBase(TreeNulls), DefaultAddt(TreeNulls))
    /\ traced = {} /\ follow_up = {} /\ replies = "emit"

\* the steps that the additional loop of n makes, told by where they leave
\* the loop: in NextChain these are the steps AddtIter(n)
AddtMoves(n) ==
    /\ pc[n] = "addt"
    /\ \E p \in {"addt", "returned"}, i \in {addt_iter[n], addt_iter[n] + 1} :
          /\ <<p, i>> # <<pc[n], addt_iter[n]>>
          /\ pc' = [pc EXCEPT ![n] = p]
          /\ addt_iter' = [addt_iter EXCEPT ![n] = i]

\* every substance's cycle is scheduled fairly: one that can be started is
\* started, one that stands in its loop makes the next iteration
FairCycles ==
    \A n \in TreeNulls : WF_vars(CycleStart(n)) /\ WF_<<pc, addt_iter>>(AddtMoves(n))

SpecFair == InitFair /\ [][NextChain]_vars /\ FairCycles

\* n awaits the confirmation of c
Awaits(n, c) == terminate_table[n][c] = TableRequested

\* C18: under fair cycles, in the chain of root, child and grandchild
\* replying with emit, every awaited confirmation eventually arrives, and a
\* root that has sent SigTerminate to its children and has dispatched a
\* self-addressed SigTerminate eventually has termination = terminated.
C18_HandshakeCompletes ==
    /\ \A n \in TreeNulls, c \in TreeNulls :
          Awaits(n, c) ~> (terminate_table[n][c] = TableConfirmed)
    /\ (termination["n1"] # Running /\ got_self["n1"]) ~> (termination["n1"] = Terminated)

====
